---------------------------- MODULE Spec2Model ----------------------------
(***************************************************************************)
(* Model of the session_clicker program (src/program/lib.rs): the Game     *)
(* and Session accounts, the four instruction handlers initialize,         *)
(* start_session, end_session and cancel_session, and the commitment hash  *)
(* recomputed by end_session.                                              *)
(*                                                                         *)
(* Integer widths are scaled: a byte has ByteBits bits instead of 8, a u32 *)
(* is still 4 bytes and a u64 / i64 still 8 bytes, a Pubkey is KeyLen      *)
(* bytes.  All truncations and wrap-arounds of the code are kept, they     *)
(* only happen at smaller numbers.                                         *)
(***************************************************************************)
EXTENDS Integers, Sequences, FiniteSets, TLC

(* ------------------------------ bounds -------------------------------- *)
ByteBits == 2
KeyLen == 2

ByteMod == 2 ^ ByteBits
U32Mod == ByteMod ^ 4
U64Mod == ByteMod ^ 8

(* smallest duration whose product with 10 leaves the u32 range *)
OverflowDur == (U32Mod \div 10) + 1

Players == {"P", "Q"}
(* account addresses, in the order in which new accounts are allocated *)
GameKeySeq == <<"g1">>
SessionKeySeq == <<"s1", "s2">>
GameKeys == {GameKeySeq[i] : i \in 1..Len(GameKeySeq)}
SessionKeys == {SessionKeySeq[i] : i \in 1..Len(SessionKeySeq)}

Times == {0, 5, 10, OverflowDur}
(* the (clicks, nonce) pairs a caller reveals *)
RevealInputs == {<<0, 7>>, <<50, 7>>, <<51, 7>>, <<100, 7>>, <<101, 7>>, <<50, 8>>}
MaxDurInputs == {-1, 0, 20, 2 * U32Mod}

VARIABLES games, sessions, now, overflow_checks, last
vars == <<games, sessions, now, overflow_checks, last>>

(* ------------------------- Option<Pubkey> ----------------------------- *)
None == <<>>
Some(k) == <<k>>

(* --------------------------- commitment ------------------------------- *)
RECURSIVE to_le_bytes(_, _)
to_le_bytes(n, width) ==
    IF width = 0 THEN <<>>
    ELSE <<n % ByteMod>> \o to_le_bytes(n \div ByteMod, width - 1)

(* Pubkey::as_ref: the KeyLen bytes of the key *)
key_bytes(p) == IF p = "P" THEN [i \in 1..KeyLen |-> 1] ELSE [i \in 1..KeyLen |-> 2]

(* faulty variant for C12: the player key is left out of the hashed bytes *)
data_to_hash_no_player(clicks, nonce, player) ==
    to_le_bytes(clicks, 4) \o to_le_bytes(nonce, 8)

(* faulty variant for C10: the nonce is left out of the hashed bytes *)
data_to_hash_no_nonce(clicks, nonce, player) ==
    to_le_bytes(clicks, 4) \o key_bytes(player)

data_to_hash(clicks, nonce, player) ==
    to_le_bytes(clicks, 4) \o to_le_bytes(nonce, 8) \o key_bytes(player)

(* solana_program::hash::hash, taken as collision free: the digest       *)
(* determines the hashed bytes                                            *)
hash(data) == [digest_of |-> data]

commit(clicks, nonce, player) == hash(data_to_hash(clicks, nonce, player))

verify(commitment, clicks, nonce, player) == commit(clicks, nonce, player) = commitment

(* the commitments a caller passes to start_session *)
CommitInputs == {commit(c, 7, "P") : c \in {0, 50, 51, 100}}

(* ----------------------------- accounts ------------------------------- *)
(* a freshly allocated account is zero filled: #[derive(Default)] *)
GameDefault ==
    [player |-> "", total_clicks |-> 0, last_session_end |-> 0, active_session |-> None]

SessionDefault ==
    [player |-> "", game |-> "", commitment |-> hash(<<>>), start_time |-> 0,
     end_time |-> 0, actual_clicks |-> 0, revealed |-> FALSE]

(* what a handler hands back: its Result and the two accounts as it left them *)
Outcome(result, game, session) == [result |-> result, game |-> game, session |-> session]

(* ----------------------------- handlers ------------------------------- *)
initialize(game, player, current_time) ==
    [game EXCEPT !.player = player,
                 !.total_clicks = 0,
                 !.last_session_end = current_time]

(* faulty variant for C2: the active-session check is missing *)
start_session_unchecked(game, game_key, session, session_key, player, commitment, current_time) ==
    IF game.player # player THEN Outcome("InvalidPlayer", game, session)
    ELSE Outcome("Ok",
                 [game EXCEPT !.active_session = Some(session_key)],
                 [session EXCEPT !.player = player,
                                 !.game = game_key,
                                 !.commitment = commitment,
                                 !.start_time = current_time,
                                 !.revealed = FALSE])

start_session(game, game_key, session, session_key, player, commitment, current_time) ==
    IF game.player # player THEN Outcome("InvalidPlayer", game, session)
    ELSE IF game.active_session # None THEN Outcome("SessionAlreadyActive", game, session)
    ELSE Outcome("Ok",
                 [game EXCEPT !.active_session = Some(session_key)],
                 [session EXCEPT !.player = player,
                                 !.game = game_key,
                                 !.commitment = commitment,
                                 !.start_time = current_time,
                                 !.revealed = FALSE])

(* faulty variant for C6: a rate of 100 instead of 10 *)
max_clicks_product_x100(session_duration) == (session_duration % U32Mod) * 100

(* (session_duration as u32) * 10: the cast truncates, the product either  *)
(* aborts the transaction (overflow checks on) or wraps (off)              *)
max_clicks_product(session_duration) == (session_duration % U32Mod) * 10

(* faulty variant for C5: the commitment is not verified *)
end_session_result_unverified(game, session, session_key, player, clicks, nonce, max_session_duration, current_time, checks) ==
    LET session_duration == current_time - session.start_time
        product == max_clicks_product(session_duration)
        max_clicks == product % U32Mod
    IN  IF game.player # player THEN "InvalidPlayer"
        ELSE IF game.active_session # Some(session_key) THEN "InvalidSession"
        ELSE IF session.revealed THEN "SessionAlreadyRevealed"
        ELSE IF session_duration > max_session_duration THEN "SessionTooLong"
        ELSE IF checks /\ product >= U32Mod THEN "Panic"
        ELSE IF clicks > max_clicks THEN "UnrealisticClickRate"
        ELSE IF checks /\ game.total_clicks + clicks >= U64Mod THEN "Panic"
        ELSE "Ok"

(* faulty variant for C7: the rate check precedes the commitment check *)
end_session_result_rate_first(game, session, session_key, player, clicks, nonce, max_session_duration, current_time, checks) ==
    LET session_duration == current_time - session.start_time
        revealed_hash == hash(data_to_hash(clicks, nonce, player))
        product == max_clicks_product(session_duration)
        max_clicks == product % U32Mod
    IN  IF game.player # player THEN "InvalidPlayer"
        ELSE IF game.active_session # Some(session_key) THEN "InvalidSession"
        ELSE IF session.revealed THEN "SessionAlreadyRevealed"
        ELSE IF session_duration > max_session_duration THEN "SessionTooLong"
        ELSE IF checks /\ product >= U32Mod THEN "Panic"
        ELSE IF clicks > max_clicks THEN "UnrealisticClickRate"
        ELSE IF revealed_hash # session.commitment THEN "InvalidCommitment"
        ELSE IF checks /\ game.total_clicks + clicks >= U64Mod THEN "Panic"
        ELSE "Ok"

(* faulty variant for C11: a duration equal to the cap is refused *)
end_session_result_cap_inclusive(game, session, session_key, player, clicks, nonce, max_session_duration, current_time, checks) ==
    LET session_duration == current_time - session.start_time
        revealed_hash == hash(data_to_hash(clicks, nonce, player))
        product == max_clicks_product(session_duration)
        max_clicks == product % U32Mod
    IN  IF game.player # player THEN "InvalidPlayer"
        ELSE IF game.active_session # Some(session_key) THEN "InvalidSession"
        ELSE IF session.revealed THEN "SessionAlreadyRevealed"
        ELSE IF session_duration >= max_session_duration THEN "SessionTooLong"
        ELSE IF revealed_hash # session.commitment THEN "InvalidCommitment"
        ELSE IF checks /\ product >= U32Mod THEN "Panic"
        ELSE IF clicks > max_clicks THEN "UnrealisticClickRate"
        ELSE IF checks /\ game.total_clicks + clicks >= U64Mod THEN "Panic"
        ELSE "Ok"

(* faulty variant for C13: the active-session check precedes the owner check *)
end_session_result_session_first(game, session, session_key, player, clicks, nonce, max_session_duration, current_time, checks) ==
    LET session_duration == current_time - session.start_time
        revealed_hash == hash(data_to_hash(clicks, nonce, player))
        product == max_clicks_product(session_duration)
        max_clicks == product % U32Mod
    IN  IF game.active_session # Some(session_key) THEN "InvalidSession"
        ELSE IF game.player # player THEN "InvalidPlayer"
        ELSE IF session.revealed THEN "SessionAlreadyRevealed"
        ELSE IF session_duration > max_session_duration THEN "SessionTooLong"
        ELSE IF revealed_hash # session.commitment THEN "InvalidCommitment"
        ELSE IF checks /\ product >= U32Mod THEN "Panic"
        ELSE IF clicks > max_clicks THEN "UnrealisticClickRate"
        ELSE IF checks /\ game.total_clicks + clicks >= U64Mod THEN "Panic"
        ELSE "Ok"

(* faulty variant for C18: the active-session check is missing *)
end_session_result_any_session(game, session, session_key, player, clicks, nonce, max_session_duration, current_time, checks) ==
    LET session_duration == current_time - session.start_time
        revealed_hash == hash(data_to_hash(clicks, nonce, player))
        product == max_clicks_product(session_duration)
        max_clicks == product % U32Mod
    IN  IF game.player # player THEN "InvalidPlayer"
        ELSE IF session.revealed THEN "SessionAlreadyRevealed"
        ELSE IF session_duration > max_session_duration THEN "SessionTooLong"
        ELSE IF revealed_hash # session.commitment THEN "InvalidCommitment"
        ELSE IF checks /\ product >= U32Mod THEN "Panic"
        ELSE IF clicks > max_clicks THEN "UnrealisticClickRate"
        ELSE IF checks /\ game.total_clicks + clicks >= U64Mod THEN "Panic"
        ELSE "Ok"

(* the checks of end_session in the order of the code, and the two checked *)
(* additions; "Panic" is the abort of an overflowing operation             *)
end_session_result(game, session, session_key, player, clicks, nonce, max_session_duration, current_time, checks) ==
    LET session_duration == current_time - session.start_time
        revealed_hash == hash(data_to_hash(clicks, nonce, player))
        product == max_clicks_product(session_duration)
        max_clicks == product % U32Mod
    IN  IF game.player # player THEN "InvalidPlayer"
        ELSE IF game.active_session # Some(session_key) THEN "InvalidSession"
        ELSE IF session.revealed THEN "SessionAlreadyRevealed"
        ELSE IF session_duration > max_session_duration THEN "SessionTooLong"
        ELSE IF revealed_hash # session.commitment THEN "InvalidCommitment"
        ELSE IF checks /\ product >= U32Mod THEN "Panic"
        ELSE IF clicks > max_clicks THEN "UnrealisticClickRate"
        ELSE IF checks /\ game.total_clicks + clicks >= U64Mod THEN "Panic"
        ELSE "Ok"

(* faulty variant for C4: the counter is overwritten instead of accumulated *)
end_session_game_overwrite(game, clicks, current_time) ==
    [game EXCEPT !.total_clicks = clicks % U64Mod,
                 !.last_session_end = current_time,
                 !.active_session = None]

(* faulty variant for C20: the reveal leaves active_session set *)
end_session_game_keeps_active(game, clicks, current_time) ==
    [game EXCEPT !.total_clicks = (game.total_clicks + clicks) % U64Mod,
                 !.last_session_end = current_time]

(* // Update game state *)
end_session_game(game, clicks, current_time) ==
    [game EXCEPT !.total_clicks = (game.total_clicks + clicks) % U64Mod,
                 !.last_session_end = current_time,
                 !.active_session = None]

(* faulty variant for C15: the reveal also stamps start_time *)
end_session_session_restamps(session, clicks, current_time) ==
    [session EXCEPT !.revealed = TRUE,
                    !.actual_clicks = clicks,
                    !.start_time = current_time,
                    !.end_time = current_time]

(* // Mark session as revealed *)
end_session_session(session, clicks, current_time) ==
    [session EXCEPT !.revealed = TRUE,
                    !.actual_clicks = clicks,
                    !.end_time = current_time]

(* faulty variant for C1: the counter is credited before the rate check *)
end_session_credit_first(game, session, session_key, player, clicks, nonce, max_session_duration, current_time, checks) ==
    LET result == end_session_result(game, session, session_key, player, clicks, nonce,
                                     max_session_duration, current_time, checks)
    IN  IF result = "Ok"
        THEN Outcome("Ok", end_session_game(game, clicks, current_time),
                     end_session_session(session, clicks, current_time))
        ELSE IF result = "UnrealisticClickRate"
        THEN Outcome(result, [game EXCEPT !.total_clicks = (@ + clicks) % U64Mod], session)
        ELSE Outcome(result, game, session)

end_session(game, session, session_key, player, clicks, nonce, max_session_duration, current_time, checks) ==
    LET result == end_session_result(game, session, session_key, player, clicks, nonce,
                                     max_session_duration, current_time, checks)
    IN  IF result = "Ok"
        THEN Outcome("Ok", end_session_game(game, clicks, current_time),
                     end_session_session(session, clicks, current_time))
        ELSE Outcome(result, game, session)

(* faulty variant for C3: the active-session check is missing *)
cancel_session_unchecked(game, session, session_key, player, current_time) ==
    IF game.player # player THEN Outcome("InvalidPlayer", game, session)
    ELSE Outcome("Ok",
                 [game EXCEPT !.active_session = None],
                 [session EXCEPT !.revealed = TRUE,
                                 !.actual_clicks = 0,
                                 !.end_time = current_time])

(* faulty variant for C16: the cancellation leaves the active reference *)
cancel_session_keeps_active(game, session, session_key, player, current_time) ==
    IF game.player # player THEN Outcome("InvalidPlayer", game, session)
    ELSE IF game.active_session # Some(session_key)
        THEN Outcome("InvalidSession", game, session)
    ELSE Outcome("Ok",
                 game,
                 [session EXCEPT !.revealed = TRUE,
                                 !.actual_clicks = 0,
                                 !.end_time = current_time])

(* faulty variant for C17: the cancellation stamps last_session_end *)
cancel_session_stamps_end(game, session, session_key, player, current_time) ==
    IF game.player # player THEN Outcome("InvalidPlayer", game, session)
    ELSE IF game.active_session # Some(session_key)
        THEN Outcome("InvalidSession", game, session)
    ELSE Outcome("Ok",
                 [game EXCEPT !.active_session = None, !.last_session_end = current_time],
                 [session EXCEPT !.revealed = TRUE,
                                 !.actual_clicks = 0,
                                 !.end_time = current_time])

(* faulty variant for C9: the counter is reset on cancellation *)
cancel_session_resets(game, session, session_key, player, current_time) ==
    IF game.player # player THEN Outcome("InvalidPlayer", game, session)
    ELSE IF game.active_session # Some(session_key)
        THEN Outcome("InvalidSession", game, session)
    ELSE Outcome("Ok",
                 [game EXCEPT !.active_session = None, !.total_clicks = 0],
                 [session EXCEPT !.revealed = TRUE,
                                 !.actual_clicks = 0,
                                 !.end_time = current_time])

cancel_session(game, session, session_key, player, current_time) ==
    IF game.player # player THEN Outcome("InvalidPlayer", game, session)
    ELSE IF game.active_session # Some(session_key)
        THEN Outcome("InvalidSession", game, session)
    ELSE Outcome("Ok",
                 [game EXCEPT !.active_session = None],
                 [session EXCEPT !.revealed = TRUE,
                                 !.actual_clicks = 0,
                                 !.end_time = current_time])

(* --------------------------- instructions ----------------------------- *)
(* the instruction executed last and the Result it returned *)
Returned(op, result) == [op |-> op, result |-> result]

Init ==
    /\ games = <<>>
    /\ sessions = <<>>
    /\ now = 0
    /\ overflow_checks \in BOOLEAN
    /\ last = Returned("none", "Ok")

(* the address of the next account to allocate, while addresses remain *)
NextKey(keys, used) ==
    IF Cardinality(used) < Len(keys) THEN {keys[Cardinality(used) + 1]} ELSE {}

(* Clock::get(): the cluster's unix_timestamp never decreases *)
Tick ==
    /\ \E t \in Times : t > now /\ now' = t
    /\ UNCHANGED <<games, sessions, overflow_checks, last>>

(* faulty variant for C19: an existing Game account is initialized again *)
Initialize_reinit(g, p) ==
    /\ g \in DOMAIN games \cup NextKey(GameKeySeq, DOMAIN games)
    /\ last' = Returned("Initialize", "Ok")
    /\ games' = (g :> initialize(GameDefault, p, now)) @@ games
    /\ UNCHANGED <<sessions, now, overflow_checks>>

(* #[account(init)] game: creating an account that exists is refused *)
Initialize(g, p) ==
    /\ g \in DOMAIN games \cup NextKey(GameKeySeq, DOMAIN games)
    /\ last' = Returned("Initialize", IF g \in DOMAIN games THEN "AccountInUse" ELSE "Ok")
    /\ games' = IF g \in DOMAIN games THEN games
                ELSE games @@ (g :> initialize(GameDefault, p, now))
    /\ UNCHANGED <<sessions, now, overflow_checks>>

(* #[account(init)] session: a new account; on Err nothing is created *)
StartSession(g, s, p, c) ==
    /\ g \in DOMAIN games
    /\ s \in DOMAIN sessions \cup NextKey(SessionKeySeq, DOMAIN sessions)
    /\ LET out == start_session(games[g], g, SessionDefault, s, p, c, now)
           result == IF s \in DOMAIN sessions THEN "AccountInUse" ELSE out.result
       IN  /\ last' = Returned("StartSession", result)
           /\ games' = IF result = "Ok" THEN [games EXCEPT ![g] = out.game] ELSE games
           /\ sessions' = IF result = "Ok" THEN sessions @@ (s :> out.session) ELSE sessions
    /\ UNCHANGED <<now, overflow_checks>>

EndSession(g, s, p, clicks, nonce, max_session_duration) ==
    /\ g \in DOMAIN games
    /\ s \in DOMAIN sessions
    /\ LET out == end_session(games[g], sessions[s], s, p, clicks, nonce,
                              max_session_duration, now, overflow_checks)
       IN  /\ last' = Returned("EndSession", out.result)
           /\ games' = [games EXCEPT ![g] = out.game]
           /\ sessions' = [sessions EXCEPT ![s] = out.session]
    /\ UNCHANGED <<now, overflow_checks>>

CancelSession(g, s, p) ==
    /\ g \in DOMAIN games
    /\ s \in DOMAIN sessions
    /\ LET out == cancel_session(games[g], sessions[s], s, p, now)
       IN  /\ last' = Returned("CancelSession", out.result)
           /\ games' = [games EXCEPT ![g] = out.game]
           /\ sessions' = [sessions EXCEPT ![s] = out.session]
    /\ UNCHANGED <<now, overflow_checks>>

DoInitialize == \E g \in GameKeys, p \in Players : Initialize(g, p)
DoStartSession == \E g \in GameKeys, s \in SessionKeys, p \in Players, c \in CommitInputs :
                      StartSession(g, s, p, c)
DoEndSession == \E g \in GameKeys, s \in SessionKeys, p \in Players, r \in RevealInputs,
                   m \in MaxDurInputs :
                      EndSession(g, s, p, r[1], r[2], m)
DoCancelSession == \E g \in GameKeys, s \in SessionKeys, p \in Players : CancelSession(g, s, p)

Next == Tick \/ DoInitialize \/ DoStartSession \/ DoEndSession \/ DoCancelSession

Spec == Init /\ [][Next]_vars

TypeOK ==
    /\ DOMAIN games \subseteq GameKeys
    /\ DOMAIN sessions \subseteq SessionKeys
    /\ now \in Times
    /\ \A g \in DOMAIN games : games[g].total_clicks \in 0..(U64Mod - 1)
    /\ \A s \in DOMAIN sessions : sessions[s].actual_clicks \in 0..(U32Mod - 1)

(* ------------------------------- claims ------------------------------- *)

(* the step executes instruction op and it returns result: instructions    *)
(* leave the clock alone and Tick always moves it                          *)
Executes(op, result) == now' = now /\ last' = Returned(op, result)

Errors == {"InvalidPlayer", "SessionAlreadyActive", "InvalidSession", "SessionAlreadyRevealed",
           "SessionTooLong", "InvalidCommitment", "UnrealisticClickRate", "Panic"}

(* C1: a failing EndSession, whatever the error, leaves every field of the *)
(* Ledger and of the Session as it was before the call.                    *)
C1_EndSessionAtomic ==
    [][(\E e \in Errors : Executes("EndSession", e))
          => (games' = games /\ sessions' = sessions)]_vars

(* C1 witness: an EndSession was rejected by the rate check on an open session *)
C1_Witness ==
    /\ last.op = "EndSession"
    /\ last.result = "UnrealisticClickRate"
    /\ \E g \in DOMAIN games : games[g].active_session # None

(* the Sessions of Ledger g that are still open *)
OpenSessions(g) == {s \in DOMAIN sessions : sessions[s].game = g /\ ~sessions[s].revealed}

(* C2: a StartSession by the owner while a session is active fails with    *)
(* SessionAlreadyActive for every commitment, creates no Session and       *)
(* leaves the Ledger unchanged; a Ledger never has two open Sessions.      *)
C2_SingleActiveSession ==
    /\ [](\A g \in DOMAIN games :
            /\ Cardinality(OpenSessions(g)) <= 1
            /\ games[g].active_session # None =>
                 \A s \in SessionKeys, c \in CommitInputs :
                    LET out == start_session(games[g], g, SessionDefault, s,
                                             games[g].player, c, now)
                    IN  /\ out.result = "SessionAlreadyActive"
                        /\ out.game = games[g])
    /\ [][Executes("StartSession", "SessionAlreadyActive")
             => (games' = games /\ sessions' = sessions)]_vars

(* C2 witness: the owner's second StartSession was refused while one Session is open *)
C2_Witness ==
    /\ last.op = "StartSession"
    /\ last.result = "SessionAlreadyActive"
    /\ \E g \in DOMAIN games : Cardinality(OpenSessions(g)) = 1

(* the Sessions of Ledger g that made their terminal transition *)
RevealedSessions(g) == {s \in DOMAIN sessions : sessions[s].game = g /\ sessions[s].revealed}

(* C3 as stated: after its terminal transition, every EndSession and every *)
(* CancelSession by the owner on a Session fails with                      *)
(* SessionAlreadyRevealed.                                                 *)
C3_Original ==
    \A g \in DOMAIN games : \A s \in RevealedSessions(g) :
        /\ \A r \in RevealInputs, m \in MaxDurInputs :
              end_session(games[g], sessions[s], s, games[g].player, r[1], r[2], m,
                          now, overflow_checks).result = "SessionAlreadyRevealed"
        /\ cancel_session(games[g], sessions[s], s, games[g].player, now).result
              = "SessionAlreadyRevealed"

(* C3 amended: after its terminal transition, every EndSession and every   *)
(* CancelSession by the owner on a Session fails, with InvalidSession,     *)
(* and changes neither the Ledger nor the Session.                         *)
C3_NoDoubleFinalization ==
    \A g \in DOMAIN games : \A s \in DOMAIN sessions :
        sessions[s].revealed =>
            /\ \A r \in RevealInputs, m \in MaxDurInputs :
                  end_session(games[g], sessions[s], s, games[g].player, r[1], r[2], m,
                              now, overflow_checks)
                     = Outcome("InvalidSession", games[g], sessions[s])
            /\ cancel_session(games[g], sessions[s], s, games[g].player, now)
                  = Outcome("InvalidSession", games[g], sessions[s])

(* C3 witness: a finalized Session was targeted again while a newer one is open *)
C3_Witness ==
    /\ last.op \in {"EndSession", "CancelSession"}
    /\ last.result = "InvalidSession"
    /\ \E g \in DOMAIN games : RevealedSessions(g) # {} /\ OpenSessions(g) # {}

RECURSIVE SumClicks(_)
SumClicks(S) ==
    IF S = {} THEN 0
    ELSE LET s == CHOOSE x \in S : TRUE
         IN  sessions[s].actual_clicks + SumClicks(S \ {s})

(* C4: total_clicks of a Ledger equals the sum of actual_clicks over its   *)
(* revealed Sessions, and a revealed Session is never changed again, so    *)
(* each Session is applied at most once and never reverted.                *)
C4_ExactlyOnce ==
    /\ [](\A g \in DOMAIN games : games[g].total_clicks = SumClicks(RevealedSessions(g)))
    /\ [][/\ \A s \in DOMAIN sessions :
               sessions[s].revealed => (s \in DOMAIN sessions' /\ sessions'[s] = sessions[s])
          /\ (Executes("EndSession", "Ok") \/ Executes("CancelSession", "Ok")) =>
               \E s \in DOMAIN sessions : ~sessions[s].revealed /\ sessions'[s].revealed]_vars

(* C4 witness: two Sessions of one Ledger were revealed with clicks *)
C4_Witness ==
    \E g \in DOMAIN games :
        /\ Cardinality({s \in RevealedSessions(g) : sessions[s].actual_clicks > 0}) = 2
        /\ games[g].total_clicks = 150

NonceInputs == {r[2] : r \in RevealInputs}

(* C5: total_clicks never decreases; a step that changes it is a           *)
(* successful EndSession on the Ledger's active Session whose commitment   *)
(* is H(clicks, nonce, owner), and it adds exactly clicks; a new Ledger    *)
(* starts at 0.                                                            *)
C5_OnlyVerifiedReveal ==
    [][/\ \A g \in DOMAIN games' \ DOMAIN games : games'[g].total_clicks = 0
       /\ \A g \in DOMAIN games :
            /\ g \in DOMAIN games'
            /\ games'[g].total_clicks >= games[g].total_clicks
            /\ games'[g].total_clicks # games[g].total_clicks =>
                 /\ Executes("EndSession", "Ok")
                 /\ \E s \in DOMAIN sessions :
                      /\ games[g].active_session = Some(s)
                      /\ ~sessions[s].revealed
                      /\ sessions'[s].revealed
                      /\ games'[g].total_clicks - games[g].total_clicks
                            = sessions'[s].actual_clicks
                      /\ \E n \in NonceInputs :
                            sessions[s].commitment
                               = commit(sessions'[s].actual_clicks, n, games[g].player)]_vars

(* C5 witness: a verified reveal raised a counter that was already positive *)
C5_Witness ==
    /\ last = Returned("EndSession", "Ok")
    /\ \E g \in DOMAIN games : \E s \in RevealedSessions(g) :
          /\ sessions[s].end_time = now
          /\ sessions[s].actual_clicks > 0
          /\ games[g].total_clicks > sessions[s].actual_clicks

(* the owner's EndSession(r, m) on the active Session s of Ledger g passes *)
(* the ownership, active-session, revealed and duration checks             *)
PastDurationCheck(g, s, m) ==
    /\ games[g].active_session = Some(s)
    /\ ~sessions[s].revealed
    /\ now - sessions[s].start_time <= m

EndResult(g, s, r, m) ==
    end_session(games[g], sessions[s], s, games[g].player, r[1], r[2], m, now,
                overflow_checks).result

(* C6: a successful EndSession has clicks <= 10 * (now - start_time), for  *)
(* every duration, also one whose product with 10 leaves the u32 range;    *)
(* at durations 5 and 0 a reveal that matches the commitment is accepted   *)
(* exactly when clicks <= 50, respectively clicks = 0.                     *)
C6_RateCap ==
    /\ [][Executes("EndSession", "Ok") =>
            \A s \in DOMAIN sessions :
               (~sessions[s].revealed /\ sessions'[s].revealed) =>
                  sessions'[s].actual_clicks <= (now - sessions[s].start_time) * 10]_vars
    /\ [](\A g \in DOMAIN games, s \in DOMAIN sessions, r \in RevealInputs, m \in MaxDurInputs :
            (/\ PastDurationCheck(g, s, m)
             /\ now - sessions[s].start_time \in {0, 5}
             /\ sessions[s].commitment = commit(r[1], r[2], games[g].player))
            => (EndResult(g, s, r, m) = "Ok"
                   <=> r[1] <= 10 * (now - sessions[s].start_time)))

(* C6 witness: 50 clicks were accepted for a Session of duration 5 *)
C6_Witness ==
    /\ last = Returned("EndSession", "Ok")
    /\ \E s \in DOMAIN sessions :
          /\ sessions[s].revealed
          /\ sessions[s].end_time = now
          /\ sessions[s].end_time - sessions[s].start_time = 5
          /\ sessions[s].actual_clicks = 50

(* C7 as stated: an EndSession by the owner on the active Session, within  *)
(* the duration cap, whose clicks exceed 10 * duration fails with          *)
(* UnrealisticClickRate whether or not (clicks, nonce) matches the         *)
(* commitment.                                                             *)
C7_Original ==
    \A g \in DOMAIN games, s \in DOMAIN sessions, r \in RevealInputs, m \in MaxDurInputs :
        (PastDurationCheck(g, s, m) /\ r[1] > 10 * (now - sessions[s].start_time))
        => EndResult(g, s, r, m) = "UnrealisticClickRate"

(* C7 amended: the commitment is verified before the rate, so such an      *)
(* EndSession fails with InvalidCommitment when (clicks, nonce, owner)     *)
(* does not hash to the commitment and with UnrealisticClickRate when it   *)
(* does; either way the Ledger and the Session are unchanged.              *)
C7_OverRateError ==
    \A g \in DOMAIN games, s \in DOMAIN sessions, r \in RevealInputs, m \in MaxDurInputs :
        (PastDurationCheck(g, s, m) /\ r[1] > 10 * (now - sessions[s].start_time))
        => end_session(games[g], sessions[s], s, games[g].player, r[1], r[2], m, now,
                       overflow_checks)
             = Outcome(IF sessions[s].commitment = commit(r[1], r[2], games[g].player)
                       THEN "UnrealisticClickRate" ELSE "InvalidCommitment",
                       games[g], sessions[s])

(* C7 witness: with H(100, 7, P) committed at 0, a reveal at 10 was        *)
(* rejected for its commitment and total_clicks is still 0                 *)
C7_Witness ==
    /\ last = Returned("EndSession", "InvalidCommitment")
    /\ now = 10
    /\ \E g \in DOMAIN games : \E s \in OpenSessions(g) :
          /\ games[g].player = "P"
          /\ games[g].total_clicks = 0
          /\ games[g].active_session = Some(s)
          /\ sessions[s].start_time = 0
          /\ sessions[s].commitment = commit(100, 7, "P")
          /\ EndResult(g, s, <<101, 7>>, 20) = "InvalidCommitment"

(* C8 as stated: an EndSession by the owner on the active Session with     *)
(* duration <= max, clicks <= 10 * duration and a matching commitment      *)
(* succeeds and sets revealed, actual_clicks, end_time, total_clicks,      *)
(* last_session_end and active_session.                                    *)
C8_Original ==
    \A g \in DOMAIN games, s \in DOMAIN sessions, r \in RevealInputs, m \in MaxDurInputs :
        (/\ PastDurationCheck(g, s, m)
         /\ r[1] <= 10 * (now - sessions[s].start_time)
         /\ sessions[s].commitment = commit(r[1], r[2], games[g].player))
        => LET out == end_session(games[g], sessions[s], s, games[g].player, r[1], r[2], m,
                                  now, overflow_checks)
           IN  /\ out.result = "Ok"
               /\ out.session.revealed
               /\ out.session.actual_clicks = r[1]
               /\ out.session.end_time = now
               /\ out.game.total_clicks = games[g].total_clicks + r[1]
               /\ out.game.last_session_end = now
               /\ out.game.active_session = None

(* C9: CancelSession by the owner on the active Session succeeds without   *)
(* any other check and sets revealed, actual_clicks = 0, end_time = now    *)
(* and active_session = None; total_clicks, owner, commitment and          *)
(* start_time keep their values.                                           *)
C9_CancelSession ==
    /\ [](\A g \in DOMAIN games, s \in DOMAIN sessions :
            games[g].active_session = Some(s) =>
               cancel_session(games[g], sessions[s], s, games[g].player, now).result = "Ok")
    /\ [][Executes("CancelSession", "Ok") =>
            \E g \in DOMAIN games, s \in DOMAIN sessions :
               /\ games[g].active_session = Some(s)
               /\ sessions'[s].revealed
               /\ sessions'[s].actual_clicks = 0
               /\ sessions'[s].end_time = now
               /\ sessions'[s].commitment = sessions[s].commitment
               /\ sessions'[s].start_time = sessions[s].start_time
               /\ games'[g].active_session = None
               /\ games'[g].total_clicks = games[g].total_clicks
               /\ games'[g].player = games[g].player]_vars

(* C9 witness: a Session was cancelled on a Ledger that already has clicks *)
C9_Witness ==
    /\ last = Returned("CancelSession", "Ok")
    /\ \E g \in DOMAIN games : \E s \in RevealedSessions(g) :
          /\ sessions[s].end_time = now
          /\ sessions[s].actual_clicks = 0
          /\ sessions[s].commitment # commit(0, 7, games[g].player)
          /\ games[g].active_session = None
          /\ games[g].total_clicks > 0

(* the (clicks, nonce, player) triples the codec is checked on: values     *)
(* that differ in one low byte, in one high byte, or in the player         *)
CodecInputs ==
    {0, 50, 51, 50 + ByteMod ^ 3} \X {7, 8, 7 + ByteMod ^ 7} \X Players

CodecBinds ==
    \A a \in CodecInputs, b \in CodecInputs :
        verify(commit(a[1], a[2], a[3]), b[1], b[2], b[3]) <=> a = b

(* the triples a stored commitment can have been made from *)
TripleInputs == {<<r[1], r[2], p>> : r \in RevealInputs, p \in Players}
CommitTable == [c \in TripleInputs |-> commit(c[1], c[2], c[3])]

(* C10: verifying commit(clicks, nonce, player) against a triple succeeds  *)
(* exactly when the triple is the committed one; an EndSession that passed *)
(* the earlier checks returns InvalidCommitment exactly when the revealed  *)
(* (clicks, nonce, owner) is not the committed triple.                     *)
C10_CommitmentBinding ==
    /\ CodecBinds
    /\ \A g \in DOMAIN games, s \in DOMAIN sessions :
          games[g].active_session = Some(s) =>
             \A c \in TripleInputs :
                sessions[s].commitment = CommitTable[c] =>
                   \A r \in RevealInputs, m \in MaxDurInputs :
                      PastDurationCheck(g, s, m) =>
                         (EndResult(g, s, r, m) = "InvalidCommitment"
                             <=> c # <<r[1], r[2], games[g].player>>)

(* C10 witness: a reveal that differs from the committed triple was        *)
(* rejected while the committed one would pass the hash comparison         *)
C10_Witness ==
    /\ last = Returned("EndSession", "InvalidCommitment")
    /\ \E g \in DOMAIN games : \E s \in OpenSessions(g) :
          /\ games[g].active_session = Some(s)
          /\ sessions[s].commitment = commit(50, 7, games[g].player)
          /\ EndResult(g, s, <<50, 8>>, 2 * U32Mod) = "InvalidCommitment"
          /\ EndResult(g, s, <<50, 7>>, 2 * U32Mod) # "InvalidCommitment"

(* C11: an EndSession by the owner on the active, unrevealed Session fails *)
(* with SessionTooLong exactly when now - start_time exceeds the caller's  *)
(* max_session_duration; a duration equal to the cap passes, and a zero or *)
(* negative cap is compared the same way.                                  *)
C11_DurationCap ==
    \A g \in DOMAIN games, s \in DOMAIN sessions :
        (games[g].active_session = Some(s) /\ ~sessions[s].revealed) =>
            \A r \in RevealInputs, m \in MaxDurInputs :
                EndResult(g, s, r, m) = "SessionTooLong"
                    <=> now - sessions[s].start_time > m

(* C11 witness: a Session of duration 0 was refused under a negative cap   *)
(* while the cap 0, equal to its duration, lets it pass                    *)
C11_Witness ==
    /\ last = Returned("EndSession", "SessionTooLong")
    /\ \E g \in DOMAIN games : \E s \in OpenSessions(g) :
          /\ games[g].active_session = Some(s)
          /\ now - sessions[s].start_time = 0
          /\ EndResult(g, s, <<0, 7>>, -1) = "SessionTooLong"
          /\ EndResult(g, s, <<0, 7>>, 0) # "SessionTooLong"

(* C12: when the owner of a Ledger opened a Session with the commitment    *)
(* another player made, H(c, n, P), the owner's EndSession(c, n) on it     *)
(* never succeeds; and no StartSession, EndSession or CancelSession by a   *)
(* player who is not the owner succeeds on the Ledger.                     *)
C12_NoCrossPlayerReplay ==
    \A g \in DOMAIN games :
        /\ \A s \in DOMAIN sessions :
              games[g].active_session = Some(s) =>
                 \A c \in TripleInputs :
                    (c[3] # games[g].player /\ sessions[s].commitment = CommitTable[c]) =>
                       \A m \in MaxDurInputs :
                          EndResult(g, s, <<c[1], c[2]>>, m) \notin {"Ok", "Panic"}
        /\ \A q \in Players \ {games[g].player} :
              /\ \A s \in SessionKeys, c \in CommitInputs :
                    start_session(games[g], g, SessionDefault, s, q, c, now).result # "Ok"
              /\ \A s \in DOMAIN sessions :
                    /\ cancel_session(games[g], sessions[s], s, q, now).result # "Ok"
                    /\ \A r \in RevealInputs, m \in MaxDurInputs :
                          end_session(games[g], sessions[s], s, q, r[1], r[2], m, now,
                                      overflow_checks).result # "Ok"

(* C12 witness: Q's Ledger holds an open Session with P's commitment       *)
(* H(50, 7, P), and Q's reveal of (50, 7), within the rate cap, was        *)
(* rejected                                                                *)
C12_Witness ==
    /\ last = Returned("EndSession", "InvalidCommitment")
    /\ \E g \in DOMAIN games : \E s \in OpenSessions(g) :
          /\ games[g].player = "Q"
          /\ games[g].active_session = Some(s)
          /\ sessions[s].commitment = commit(50, 7, "P")
          /\ now - sessions[s].start_time = 5
          /\ EndResult(g, s, <<50, 7>>, 20) = "InvalidCommitment"

(* C13: a StartSession, EndSession or CancelSession by a player who is not *)
(* the Ledger's owner fails with InvalidPlayer whatever else holds, and    *)
(* leaves both accounts unchanged; for the owner, a Session that is not    *)
(* the active one is refused with InvalidSession, also when it is          *)
(* revealed.                                                               *)
C13_OwnerCheckFirst ==
    \A g \in DOMAIN games :
        /\ \A q \in Players \ {games[g].player} :
              /\ \A s \in SessionKeys, c \in CommitInputs :
                    start_session(games[g], g, SessionDefault, s, q, c, now)
                       = Outcome("InvalidPlayer", games[g], SessionDefault)
              /\ \A s \in DOMAIN sessions :
                    /\ cancel_session(games[g], sessions[s], s, q, now)
                          = Outcome("InvalidPlayer", games[g], sessions[s])
                    /\ \A r \in RevealInputs, m \in MaxDurInputs :
                          end_session(games[g], sessions[s], s, q, r[1], r[2], m, now,
                                      overflow_checks)
                             = Outcome("InvalidPlayer", games[g], sessions[s])
        /\ \A s \in DOMAIN sessions :
              games[g].active_session # Some(s) =>
                 \A r \in RevealInputs, m \in MaxDurInputs :
                    EndResult(g, s, r, m) = "InvalidSession"

(* C13 witness: a player who is not the owner was refused on an idle       *)
(* Ledger for a Session that is already revealed                           *)
C13_Witness ==
    /\ last = Returned("EndSession", "InvalidPlayer")
    /\ \E g \in DOMAIN games :
          /\ games[g].active_session = None
          /\ RevealedSessions(g) # {}

(* a clock that is not monotonic: the reading moves to any other time,    *)
(* also an earlier one                                                     *)
RegressTimes == {0, 5}
RegressCommits == {commit(50, 7, "P")}
RegressReveals == {<<50, 7>>, <<51, 7>>}
RegressMaxDurs == {-1, 20}

TickAny ==
    /\ \E t \in RegressTimes : t # now /\ now' = t
    /\ UNCHANGED <<games, sessions, overflow_checks, last>>

NextRegress ==
    \/ TickAny
    \/ DoInitialize
    \/ \E g \in GameKeys, s \in SessionKeys, p \in Players, c \in RegressCommits :
          StartSession(g, s, p, c)
    \/ \E g \in GameKeys, s \in SessionKeys, p \in Players, r \in RegressReveals,
          m \in RegressMaxDurs :
          EndSession(g, s, p, r[1], r[2], m)
    \/ DoCancelSession

SpecRegress == Init /\ [][NextRegress]_vars

(* C14 as stated: when the clock reads less than start_time and the cap    *)
(* does not reject the duration, every EndSession with clicks > 0 is       *)
(* rejected with UnrealisticClickRate, without a fault, and changes        *)
(* nothing.                                                                *)
C14_Original ==
    \A g \in DOMAIN games, s \in DOMAIN sessions :
        (/\ games[g].active_session = Some(s)
         /\ ~sessions[s].revealed
         /\ now - sessions[s].start_time < 0) =>
            \A r \in RegressReveals, m \in RegressMaxDurs :
                (r[1] > 0 /\ now - sessions[s].start_time <= m) =>
                    end_session(games[g], sessions[s], s, games[g].player, r[1], r[2], m,
                                now, overflow_checks)
                       = Outcome("UnrealisticClickRate", games[g], sessions[s])

(* C15: a Session keeps its owner, Ledger reference, commitment and        *)
(* start_time for ever; end_time and actual_clicks change only in the step *)
(* that turns revealed from false to true, and a revealed Session is never *)
(* changed again.                                                          *)
C15_SessionFieldsStable ==
    [][\A s \in DOMAIN sessions :
          /\ s \in DOMAIN sessions'
          /\ sessions'[s].player = sessions[s].player
          /\ sessions'[s].game = sessions[s].game
          /\ sessions'[s].commitment = sessions[s].commitment
          /\ sessions'[s].start_time = sessions[s].start_time
          /\ sessions[s].revealed => sessions'[s] = sessions[s]
          /\ (\/ sessions'[s].end_time # sessions[s].end_time
              \/ sessions'[s].actual_clicks # sessions[s].actual_clicks)
                => (~sessions[s].revealed /\ sessions'[s].revealed)]_vars

(* C15 witness: a Session revealed with clicks at an earlier time, and a   *)
(* later Session of the same Ledger cancelled since                        *)
C15_Witness ==
    \E s \in DOMAIN sessions, t \in DOMAIN sessions :
        /\ sessions[s].revealed
        /\ sessions[s].actual_clicks > 0
        /\ sessions[s].end_time > sessions[s].start_time
        /\ sessions[t].revealed
        /\ sessions[t].game = sessions[s].game
        /\ sessions[t].start_time >= sessions[s].end_time
        /\ sessions[t].end_time > sessions[t].start_time
        /\ sessions[t].actual_clicks = 0

(* the owner of Ledger g cancels its active Session *)
OwnerCancel(g) ==
    \E s \in SessionKeys :
        /\ g \in DOMAIN games
        /\ s \in DOMAIN sessions
        /\ games[g].active_session = Some(s)
        /\ CancelSession(g, s, games[g].player)

(* the owner of a Ledger with an open Session eventually cancels it unless *)
(* the Session is closed otherwise                                         *)
SpecFair == Spec /\ \A g \in GameKeys : WF_vars(OwnerCancel(g))

(* C16: with a Session active, the owner's CancelSession on it succeeds    *)
(* and makes the Ledger idle, whatever the commitment and the time         *)
(* elapsed; on an idle Ledger the owner's StartSession with a new Session  *)
(* account succeeds; so, the owner being fair, a Ledger with an open       *)
(* Session becomes idle again.                                             *)
C16_LifecycleRepeats ==
    /\ [](\A g \in DOMAIN games :
            /\ games[g].active_session # None =>
                 \E s \in DOMAIN sessions :
                    /\ games[g].active_session = Some(s)
                    /\ LET out == cancel_session(games[g], sessions[s], s, games[g].player, now)
                       IN  out.result = "Ok" /\ out.game.active_session = None
            /\ games[g].active_session = None =>
                 \A s \in SessionKeys, c \in CommitInputs :
                    LET out == start_session(games[g], g, SessionDefault, s,
                                             games[g].player, c, now)
                    IN  out.result = "Ok" /\ out.game.active_session = Some(s))
    /\ \A g \in GameKeys :
          (g \in DOMAIN games /\ games[g].active_session # None)
             ~> (g \in DOMAIN games /\ games[g].active_session = None)

(* C16 witness: a Session too old to be revealed (its rate cap overflows)  *)
(* was cancelled and the Ledger is idle                                    *)
C16_Witness ==
    /\ last = Returned("CancelSession", "Ok")
    /\ \E g \in DOMAIN games : \E s \in RevealedSessions(g) :
          /\ games[g].active_session = None
          /\ sessions[s].end_time = now
          /\ sessions[s].end_time - sessions[s].start_time = OverflowDur

(* C17: last_session_end is set to the clock when Initialize creates the   *)
(* Ledger and when an EndSession succeeds, where it equals the end_time of *)
(* the Session revealed; StartSession, CancelSession and every failed      *)
(* operation leave it unchanged.                                           *)
C17_LastSessionEnd ==
    [][/\ \A g \in DOMAIN games' \ DOMAIN games :
             Executes("Initialize", "Ok") /\ games'[g].last_session_end = now
       /\ \A g \in DOMAIN games :
             /\ g \in DOMAIN games'
             /\ games'[g].last_session_end # games[g].last_session_end =>
                  /\ Executes("EndSession", "Ok")
                  /\ games'[g].last_session_end = now
             /\ (Executes("EndSession", "Ok") /\ games'[g] # games[g]) =>
                  \E s \in DOMAIN sessions :
                     /\ games[g].active_session = Some(s)
                     /\ sessions'[s].revealed
                     /\ sessions'[s].end_time = games'[g].last_session_end
                     /\ games'[g].last_session_end = now]_vars

(* C17 witness: a Session was cancelled later than the last reveal and     *)
(* last_session_end still holds the reveal's time                          *)
C17_Witness ==
    /\ last = Returned("CancelSession", "Ok")
    /\ \E g \in DOMAIN games : \E s \in RevealedSessions(g), t \in RevealedSessions(g) :
          /\ sessions[s].end_time = now
          /\ sessions[s].actual_clicks = 0
          /\ sessions[t].actual_clicks > 0
          /\ games[g].last_session_end = sessions[t].end_time
          /\ games[g].last_session_end < now

(* ---------------------------- two Ledgers ----------------------------- *)
TwoGameKeySeq == <<"g1", "g2">>
TwoGameKeys == {TwoGameKeySeq[i] : i \in 1..Len(TwoGameKeySeq)}
TwoTimes == {0, 5}
TwoCommits == {commit(50, 7, "P")}
TwoReveals == {<<50, 7>>, <<51, 7>>}
TwoMaxDurs == {20}

TickTwo ==
    /\ \E t \in TwoTimes : t > now /\ now' = t
    /\ UNCHANGED <<games, sessions, overflow_checks, last>>

(* Initialize with the Game account at one of the addresses keys *)
InitializeAt(keys, g, p) ==
    /\ g \in DOMAIN games \cup NextKey(keys, DOMAIN games)
    /\ last' = Returned("Initialize", IF g \in DOMAIN games THEN "AccountInUse" ELSE "Ok")
    /\ games' = IF g \in DOMAIN games THEN games
                ELSE games @@ (g :> initialize(GameDefault, p, now))
    /\ UNCHANGED <<sessions, now, overflow_checks>>

NextTwo ==
    \/ TickTwo
    \/ \E g \in TwoGameKeys, p \in Players : InitializeAt(TwoGameKeySeq, g, p)
    \/ \E g \in TwoGameKeys, s \in SessionKeys, p \in Players, c \in TwoCommits :
          StartSession(g, s, p, c)
    \/ \E g \in TwoGameKeys, s \in SessionKeys, p \in Players, r \in TwoReveals,
          m \in TwoMaxDurs :
          EndSession(g, s, p, r[1], r[2], m)
    \/ \E g \in TwoGameKeys, s \in SessionKeys, p \in Players : CancelSession(g, s, p)

SpecTwo == Init /\ [][NextTwo]_vars

(* the Ledgers and the Sessions a step creates or changes *)
TouchedGames == {g \in DOMAIN games' : g \notin DOMAIN games \/ games'[g] # games[g]}
TouchedSessions ==
    {s \in DOMAIN sessions' : s \notin DOMAIN sessions \/ sessions'[s] # sessions[s]}

C19_InitializeOnce ==
    /\ [](\A p \in Players :
            initialize(GameDefault, p, now) =
               [player |-> p, total_clicks |-> 0, last_session_end |-> now,
                active_session |-> None])
    /\ [][/\ Executes("Initialize", "Ok") =>
               /\ sessions' = sessions
               /\ \E g \in DOMAIN games' \ DOMAIN games, p \in Players :
                     games' = games @@ (g :> [player |-> p, total_clicks |-> 0,
                                              last_session_end |-> now,
                                              active_session |-> None])
          /\ Executes("Initialize", "AccountInUse") =>
               /\ games # << >>
               /\ games' = games
               /\ sessions' = sessions
          /\ (now' = now /\ last'.op = "Initialize") =>
               \A g \in DOMAIN games : g \in DOMAIN games' /\ games'[g] = games[g]
          /\ \A g \in DOMAIN games :
               g \in DOMAIN games' /\ games'[g].player = games[g].player]_vars

(* C19 witness: Initialize was refused for a Ledger that has credited      *)
(* clicks and an active Session                                            *)
C19_Witness ==
    /\ last = Returned("Initialize", "AccountInUse")
    /\ \E g \in DOMAIN games :
          /\ games[g].total_clicks > 0
          /\ games[g].active_session # None

(* -------------------------- active reference -------------------------- *)
(* C20: if a Ledger's active_session is Some(s) then Session s exists, is  *)
(* not revealed, refers to that Ledger and has the Ledger's owner; every   *)
(* Session that is not revealed is the active_session of its own Ledger;   *)
(* and CancelSession never succeeds on, or changes, a revealed Session.    *)
C20_ActiveReference ==
    /\ [](\A g \in DOMAIN games :
            games[g].active_session # None =>
               LET s == games[g].active_session[1]
               IN  /\ s \in DOMAIN sessions
                   /\ ~sessions[s].revealed
                   /\ sessions[s].game = g
                   /\ sessions[s].player = games[g].player)
    /\ [](\A s \in DOMAIN sessions :
            ~sessions[s].revealed =>
               /\ sessions[s].game \in DOMAIN games
               /\ games[sessions[s].game].active_session = Some(s))
    /\ [](\A g \in DOMAIN games, s \in DOMAIN sessions, p \in Players :
            sessions[s].revealed =>
               /\ cancel_session(games[g], sessions[s], s, p, now).result # "Ok"
               /\ cancel_session(games[g], sessions[s], s, p, now).session = sessions[s])
    /\ [][Executes("CancelSession", "Ok") =>
            \E s \in DOMAIN sessions :
               /\ ~sessions[s].revealed
               /\ sessions'[s].revealed
               /\ \A t \in DOMAIN sessions \ {s} : sessions'[t] = sessions[t]]_vars

(* C20 witness: a Ledger with an active Session and an earlier, revealed   *)
(* Session with credited clicks, for which a CancelSession was refused     *)
C20_Witness ==
    /\ last = Returned("CancelSession", "InvalidSession")
    /\ \E g \in DOMAIN games, s \in DOMAIN sessions, t \in DOMAIN sessions :
          /\ games[g].active_session = Some(s)
          /\ sessions[t].game = g
          /\ sessions[t].revealed
          /\ sessions[t].actual_clicks > 0

=============================================================================
